---- MODULE Spec2Model ----
(***************************************************************************)
(* Model of the Upload page component (pixelshield/src/pages/Upload.jsx):  *)
(* eight React state fields, three event handlers and the two setInterval  *)
(* progress callbacks the handlers create.                                 *)
(*                                                                         *)
(* Time is counted in units of 100 ms, so the 200 ms upload interval is 2  *)
(* units and the 300 ms verify interval is 3 units.  A live interval is a  *)
(* record holding its closure variable `progress`, the time left until its *)
(* next callback and (for reference only) the object URL that was current  *)
(* when the interval was created.                                          *)
(***************************************************************************)
EXTENDS Integers, Sequences, FiniteSets

\* ---------------------------------------------------------------- bounds
\* Number of successful file selections explored (each selection creates a
\* fresh object URL 1, 2, ...).
MaxSelections == 2

\* ------------------------------------------------------- program constants
\* progress += 10
ProgressStep == 10
\* if (progress >= 100)
ProgressLimit == 100
\* setInterval(..., 200), in units of 100 ms
UploadInterval == 2
\* setInterval(..., 300), in units of 100 ms
VerifyInterval == 3

\* useState(null) for selectedImage: no object URL
NoImage == 0
\* useState(null) for verificationResult
Null == "null"

\* const results = ["authentic", "ai", "edited"]
results == <<"authentic", "ai", "edited">>

VARIABLES
    selectedImage,         \* NoImage or the object URL (1, 2, ...) of the file
    uploadProgress,
    isUploaded,
    isVerifying,
    verificationProgress,
    isVerified,
    showResult,
    verificationResult,    \* Null or an element of results
    timers,                \* live intervals, in creation order
    urlCount,              \* object URLs created so far
    card,                  \* what {showResult && renderResultCard()} rendered
    lastEvent              \* the event handled last (history)

fields == <<selectedImage, uploadProgress, isUploaded, isVerifying,
            verificationProgress, isVerified, showResult, verificationResult>>

vars == <<selectedImage, uploadProgress, isUploaded, isVerifying,
          verificationProgress, isVerified, showResult, verificationResult,
          timers, urlCount, card, lastEvent>>

\* ------------------------------------------------------------- helpers
\* The interval created by setInterval(cb, period) for the selection `s`.
NewTimer(kind, period, s) ==
    [kind |-> kind, progress |-> 0, due |-> period, session |-> s]

\* clearInterval called with the handle of the oldest live interval instead
\* of the callback's own.
RemoveOldest(seq, i) == Tail(seq)

\* clearInterval(interval): the i-th live interval is removed.
RemoveAt(seq, i) ==
    [j \in 1..(Len(seq) - 1) |-> IF j < i THEN seq[j] ELSE seq[j + 1]]

\* A callback that tests (progress > 100) instead: one tick too many.
FinishedLate(p) == p > ProgressLimit

\* A callback that tests (progress >= 90): it stops one tick early.
FinishedEarly(p) == p >= ProgressLimit - ProgressStep

\* if (progress >= 100)
Finished(p) == p >= ProgressLimit

\* A Verify button rendered as soon as the upload is done, whatever the
\* verification flags say.
VerifyButtonShownAfterUpload == isUploaded

\* A Verify button rendered as soon as an image is selected.
VerifyButtonShownOnSelect == selectedImage # NoImage /\ ~isVerifying /\ ~isVerified

\* {isUploaded && !isVerifying && !isVerified && (<button onClick={handleVerify}>)}
VerifyButtonShown == isUploaded /\ ~isVerifying /\ ~isVerified

\* A View-results button rendered whenever an image is selected.
ResultsButtonShownAlways == selectedImage # NoImage

\* A View-results button that stays rendered after the result is shown.
ResultsButtonShownWhenVerified == isVerified

\* {isVerified && !showResult && (... <button onClick={handleViewResults}>)}
ResultsButtonShown == isVerified /\ ~showResult

\* The stage the page displays, read off the render conditions.
Stage ==
    IF selectedImage = NoImage THEN "Idle"
    ELSE IF showResult THEN "ResultShown"
    ELSE IF isVerified THEN "Verified"
    ELSE IF isVerifying THEN "Verifying"
    ELSE IF isUploaded THEN "Uploaded"
    ELSE "Uploading"

\* The resultProps object renderResultCard builds for the result vr (the
\* emoji that start the titles are left out).
resultPropsOf(vr) ==
    IF vr = "authentic"
      THEN [color |-> "green", title |-> "Authentic image",
            message |-> "No edits or modifications detected.",
            action |-> "Download Certificate"]
    ELSE IF vr = "ai"
      THEN [color |-> "red", title |-> "AI-Generated",
            message |-> "Potential AI-Generated or Deepfake Image",
            action |-> "Report Suspicious Image"]
    ELSE IF vr = "edited"
      THEN [color |-> "orange", title |-> "Edited Image",
            message |-> "Changes detected in this image",
            action |-> "View Edit History"]
    ELSE [color |-> "", title |-> "", message |-> "", action |-> ""]

\* The class of the banner that carries title and message.
bannerClassOf(vr) ==
    IF vr = "authentic" THEN "bg-green-600"
    ELSE IF vr = "ai" THEN "bg-red-600"
    ELSE "bg-yellow-600"

\* if (!verificationResult || !selectedImage): null and "" are falsy.
Falsy(v) == v \in {Null, ""}

\* The JSX renderResultCard returns: image, banner, title, message, action.
CardOf(vr, img) ==
    [image |-> img, banner |-> bannerClassOf(vr),
     color |-> resultPropsOf(vr).color, title |-> resultPropsOf(vr).title,
     message |-> resultPropsOf(vr).message,
     action |-> resultPropsOf(vr).action]

\* renderResultCard that misspells the "edited" comparison: the card for that
\* result carries the default, empty metadata.
renderResultCardEditedEmpty ==
    IF Falsy(verificationResult) \/ selectedImage = NoImage THEN <<>>
    ELSE IF verificationResult = "edited"
      THEN <<CardOf("Edited", selectedImage)>>
    ELSE <<CardOf(verificationResult, selectedImage)>>

\* renderResultCard: nothing (the empty sequence) for null, else the card.
renderResultCard ==
    IF Falsy(verificationResult) \/ selectedImage = NoImage THEN <<>>
    ELSE <<CardOf(verificationResult, selectedImage)>>

\* {showResult && renderResultCard()}
Rendered == IF showResult THEN renderResultCard ELSE <<>>

\* ---------------------------------------------------------------- Init
Init ==
    /\ selectedImage = NoImage
    /\ uploadProgress = 0
    /\ isUploaded = FALSE
    /\ isVerifying = FALSE
    /\ verificationProgress = 0
    /\ isVerified = FALSE
    /\ showResult = FALSE
    /\ verificationResult = Null
    /\ timers = <<>>
    /\ urlCount = 0
    /\ card = <<>>
    /\ lastEvent = [op |-> "mount", session |-> NoImage]

\* -------------------------------------------------------------- actions
\* handleFileChange without the setShowResult(false) and
\* setVerificationResult(null) calls.
handleFileChangeKeepsResult ==
    /\ urlCount < MaxSelections
    /\ urlCount' = urlCount + 1
    /\ selectedImage' = urlCount + 1
    /\ isUploaded' = FALSE
    /\ uploadProgress' = 0
    /\ isVerifying' = FALSE
    /\ isVerified' = FALSE
    /\ timers' = Append(timers, NewTimer("upload", UploadInterval, urlCount + 1))
    /\ lastEvent' = [op |-> "select", session |-> urlCount + 1]
    /\ UNCHANGED <<verificationProgress, showResult, verificationResult>>
    /\ card' = Rendered'

\* handleFileChange with e.target.files[0] defined.
handleFileChange ==
    /\ urlCount < MaxSelections
    /\ urlCount' = urlCount + 1
    /\ selectedImage' = urlCount + 1
    /\ isUploaded' = FALSE
    /\ uploadProgress' = 0
    /\ isVerifying' = FALSE
    /\ isVerified' = FALSE
    /\ showResult' = FALSE
    /\ verificationResult' = Null
    /\ timers' = Append(timers, NewTimer("upload", UploadInterval, urlCount + 1))
    /\ lastEvent' = [op |-> "select", session |-> urlCount + 1]
    /\ UNCHANGED verificationProgress
    /\ card' = Rendered'

\* handleFileChange with the progress and stage resets placed before the
\* if (file) test: an empty selection wipes the session.
handleFileChangeNoFileResets ==
    /\ isUploaded' = FALSE
    /\ uploadProgress' = 0
    /\ isVerifying' = FALSE
    /\ isVerified' = FALSE
    /\ showResult' = FALSE
    /\ verificationResult' = Null
    /\ lastEvent' = [op |-> "nofile", session |-> selectedImage]
    /\ UNCHANGED <<selectedImage, verificationProgress, timers, urlCount>>
    /\ card' = Rendered'

\* handleFileChange with e.target.files[0] undefined: the if-body is skipped.
handleFileChangeNoFile ==
    /\ lastEvent' = [op |-> "nofile", session |-> selectedImage]
    /\ UNCHANGED <<fields, timers, urlCount>>
    /\ card' = Rendered'

\* handleVerify that also calls setUploadProgress(0), as handleFileChange
\* does.
handleVerifyResetsUpload ==
    /\ VerifyButtonShown
    /\ isVerifying' = TRUE
    /\ verificationProgress' = 0
    /\ isVerified' = FALSE
    /\ showResult' = FALSE
    /\ uploadProgress' = 0
    /\ timers' = Append(timers, NewTimer("verify", VerifyInterval, selectedImage))
    /\ lastEvent' = [op |-> "verify", session |-> selectedImage]
    /\ UNCHANGED <<selectedImage, isUploaded, verificationResult, urlCount>>
    /\ card' = Rendered'

\* Click on "Verify Image": handleVerify.
handleVerify ==
    /\ VerifyButtonShown
    /\ isVerifying' = TRUE
    /\ verificationProgress' = 0
    /\ isVerified' = FALSE
    /\ showResult' = FALSE
    /\ timers' = Append(timers, NewTimer("verify", VerifyInterval, selectedImage))
    /\ lastEvent' = [op |-> "verify", session |-> selectedImage]
    /\ UNCHANGED <<selectedImage, uploadProgress, isUploaded,
                   verificationResult, urlCount>>
    /\ card' = Rendered'

\* handleViewResults without the setVerificationResult(random) call.
handleViewResultsNoStore ==
    /\ ResultsButtonShown
    /\ showResult' = TRUE
    /\ lastEvent' = [op |-> "results", session |-> selectedImage]
    /\ UNCHANGED <<selectedImage, uploadProgress, isUploaded, isVerifying,
                   verificationProgress, isVerified, verificationResult,
                   timers, urlCount>>
    /\ card' = Rendered'

\* Click on "View results": handleViewResults.
handleViewResults ==
    /\ ResultsButtonShown
    /\ \E k \in 1..Len(results) : verificationResult' = results[k]
    /\ showResult' = TRUE
    /\ lastEvent' = [op |-> "results", session |-> selectedImage]
    /\ UNCHANGED <<selectedImage, uploadProgress, isUploaded, isVerifying,
                   verificationProgress, isVerified, timers, urlCount>>
    /\ card' = Rendered'

\* The upload callback without the setIsUploaded(true) call.
UploadTickNoFlag(i) ==
    LET t == timers[i]
        p == t.progress + ProgressStep
    IN  /\ t.kind = "upload"
        /\ t.due = 0
        /\ uploadProgress' = p
        /\ IF Finished(p)
             THEN timers' = RemoveAt(timers, i)
             ELSE timers' = [timers EXCEPT ![i].progress = p,
                                           ![i].due = UploadInterval]
        /\ lastEvent' = [op |-> "uploadTick", session |-> t.session]
        /\ UNCHANGED <<selectedImage, isUploaded, isVerifying,
                       verificationProgress, isVerified, showResult,
                       verificationResult, urlCount>>
        /\ card' = Rendered'

\* The callback of the i-th live interval, an upload interval.
UploadTick(i) ==
    LET t == timers[i]
        p == t.progress + ProgressStep
    IN  /\ t.kind = "upload"
        /\ t.due = 0
        /\ uploadProgress' = p
        /\ IF Finished(p)
             THEN /\ timers' = RemoveAt(timers, i)
                  /\ isUploaded' = TRUE
             ELSE /\ timers' = [timers EXCEPT ![i].progress = p,
                                              ![i].due = UploadInterval]
                  /\ UNCHANGED isUploaded
        /\ lastEvent' = [op |-> "uploadTick", session |-> t.session]
        /\ UNCHANGED <<selectedImage, isVerifying, verificationProgress,
                       isVerified, showResult, verificationResult, urlCount>>
        /\ card' = Rendered'

\* The verify callback without the setIsVerified(true) call.
VerifyTickNoVerified(i) ==
    LET t == timers[i]
        p == t.progress + ProgressStep
    IN  /\ t.kind = "verify"
        /\ t.due = 0
        /\ verificationProgress' = p
        /\ IF Finished(p)
             THEN /\ timers' = RemoveAt(timers, i)
                  /\ isVerifying' = FALSE
             ELSE /\ timers' = [timers EXCEPT ![i].progress = p,
                                              ![i].due = VerifyInterval]
                  /\ UNCHANGED isVerifying
        /\ lastEvent' = [op |-> "verifyTick", session |-> t.session]
        /\ UNCHANGED <<selectedImage, uploadProgress, isUploaded, isVerified,
                       showResult, verificationResult, urlCount>>
        /\ card' = Rendered'

\* The verify callback without the setIsVerifying(false) call.
VerifyTickKeepsVerifying(i) ==
    LET t == timers[i]
        p == t.progress + ProgressStep
    IN  /\ t.kind = "verify"
        /\ t.due = 0
        /\ verificationProgress' = p
        /\ IF Finished(p)
             THEN /\ timers' = RemoveAt(timers, i)
                  /\ isVerified' = TRUE
             ELSE /\ timers' = [timers EXCEPT ![i].progress = p,
                                              ![i].due = VerifyInterval]
                  /\ UNCHANGED isVerified
        /\ lastEvent' = [op |-> "verifyTick", session |-> t.session]
        /\ UNCHANGED <<selectedImage, uploadProgress, isUploaded, isVerifying,
                       showResult, verificationResult, urlCount>>
        /\ card' = Rendered'

\* The callback of the i-th live interval, a verify interval.
VerifyTick(i) ==
    LET t == timers[i]
        p == t.progress + ProgressStep
    IN  /\ t.kind = "verify"
        /\ t.due = 0
        /\ verificationProgress' = p
        /\ IF Finished(p)
             THEN /\ timers' = RemoveAt(timers, i)
                  /\ isVerifying' = FALSE
                  /\ isVerified' = TRUE
             ELSE /\ timers' = [timers EXCEPT ![i].progress = p,
                                              ![i].due = VerifyInterval]
                  /\ UNCHANGED <<isVerifying, isVerified>>
        /\ lastEvent' = [op |-> "verifyTick", session |-> t.session]
        /\ UNCHANGED <<selectedImage, uploadProgress, isUploaded,
                       showResult, verificationResult, urlCount>>
        /\ card' = Rendered'

\* 100 ms pass: no callback is due, every live interval comes closer to its
\* next callback.
Elapse ==
    /\ timers # <<>>
    /\ \A i \in 1..Len(timers) : timers[i].due > 0
    /\ timers' = [i \in 1..Len(timers) |->
                    [timers[i] EXCEPT !.due = timers[i].due - 1]]
    /\ lastEvent' = [op |-> "elapse", session |-> selectedImage]
    /\ UNCHANGED <<fields, urlCount>>
    /\ card' = Rendered'

Next ==
    \/ handleFileChange
    \/ handleFileChangeNoFile
    \/ handleVerify
    \/ handleViewResults
    \/ \E i \in 1..Len(timers) : UploadTick(i)
    \/ \E i \in 1..Len(timers) : VerifyTick(i)
    \/ Elapse

Spec == Init /\ [][Next]_vars

\* Values of verificationResult that are none of results and not falsy.
Unrecognized == {"AI", "Edited", "ai-generated", "deepfake", "unknown"}

\* The presenter on its own: renderResultCard reads verificationResult and
\* selectedImage, the page reads showResult; each is drawn freely.
PresenterInit ==
    /\ selectedImage \in 0..MaxSelections
    /\ verificationResult \in
          {Null, ""} \cup {results[k] : k \in 1..Len(results)} \cup Unrecognized
    /\ showResult \in BOOLEAN
    /\ uploadProgress = 0
    /\ isUploaded = FALSE
    /\ isVerifying = FALSE
    /\ verificationProgress = 0
    /\ isVerified = FALSE
    /\ timers = <<>>
    /\ urlCount = selectedImage
    /\ card = <<>>
    /\ lastEvent = [op |-> "mount", session |-> NoImage]

\* One render of {showResult && renderResultCard()}.
Render ==
    /\ lastEvent.op = "mount"
    /\ card' = Rendered
    /\ lastEvent' = [op |-> "render", session |-> selectedImage]
    /\ UNCHANGED <<fields, timers, urlCount>>

PresenterNext == Render

PresenterSpec == PresenterInit /\ [][PresenterNext]_vars

\* Some due interval callback runs.
Tick == \E i \in 1..Len(timers) : UploadTick(i) \/ VerifyTick(i)

\* The event loop: time passes, and a callback that is due is run.
FairSpec == Spec /\ WF_vars(Tick) /\ WF_vars(Elapse)

TypeOK ==
    /\ selectedImage \in {NoImage} \cup (1..MaxSelections)
    /\ uploadProgress \in Int
    /\ verificationProgress \in Int
    /\ isUploaded \in BOOLEAN /\ isVerifying \in BOOLEAN
    /\ isVerified \in BOOLEAN /\ showResult \in BOOLEAN
    /\ verificationResult \in {Null} \cup {results[k] : k \in 1..Len(results)}
    /\ urlCount \in 0..MaxSelections

\* ------------------------------------------------------------- claims
IsTick(e) == e.op \in {"uploadTick", "verifyTick"}

ResultSet == {results[k] : k \in 1..Len(results)}

VerifyTimers(seq) == {i \in 1..Len(seq) : seq[i].kind = "verify"}

\* C1: after a successful file selection, no tick of an interval created
\* before that selection changes any of the session fields.
C1_StaleTickChangesNothing ==
    [][(IsTick(lastEvent') /\ lastEvent'.session # selectedImage)
          => UNCHANGED fields]_vars

\* C2: in every reachable state at most one progress interval is alive.
C2_AtMostOneTimer == Len(timers) <= 1

\* C3: the image becomes verified only by the completing tick of a verify
\* interval that was created for the currently selected image.
C3_VerifiedByOwnTimer ==
    [][(~isVerified /\ isVerified')
          => (lastEvent'.op = "verifyTick"
              /\ lastEvent'.session = selectedImage')]_vars

\* C4: whenever isUploaded is true (so also whenever the Verify button is
\* offered) uploadProgress equals 100.
C4_UploadedImpliesFull ==
    /\ isUploaded => uploadProgress = ProgressLimit
    /\ VerifyButtonShown => uploadProgress = ProgressLimit

\* C5: whenever isVerified is true verificationProgress equals 100.
C5_VerifiedImpliesFull == isVerified => verificationProgress = ProgressLimit

\* C6: no step other than a file selection lowers uploadProgress and no step
\* other than handleVerify lowers verificationProgress.
C6_ProgressNonDecreasing ==
    [][/\ lastEvent'.op # "select" => uploadProgress' >= uploadProgress
       /\ lastEvent'.op # "verify"
            => verificationProgress' >= verificationProgress]_vars

\* C7: uploadProgress and verificationProgress are integers in [0,100] in
\* every reachable state.
C7_ProgressInRange ==
    /\ uploadProgress \in 0..ProgressLimit
    /\ verificationProgress \in 0..ProgressLimit

C7_Witness ==
    /\ uploadProgress = ProgressLimit
    /\ verificationProgress = ProgressLimit
    /\ lastEvent.op = "verifyTick"
    /\ Len(timers) >= 1

\* C8 as stated: right after a successful file selection uploadProgress and
\* verificationProgress are 0, the result is unset and the stage is Uploading.
C8_SelectResetsAll ==
    lastEvent.op = "select"
        => /\ uploadProgress = 0
           /\ verificationProgress = 0
           /\ verificationResult = Null
           /\ Stage = "Uploading"

\* C8 amended: a successful file selection sets uploadProgress to 0, unsets
\* the result and makes the stage Uploading (not uploaded, not verifying, not
\* verified, no result shown); verificationProgress keeps its value.
C8_SelectResetsAllButVerificationProgress ==
    [][lastEvent'.op = "select"
          => /\ uploadProgress' = 0
             /\ verificationResult' = Null
             /\ Stage' = "Uploading"
             /\ ~isUploaded' /\ ~isVerifying' /\ ~isVerified' /\ ~showResult'
             /\ verificationProgress' = verificationProgress]_vars

C8_Witness ==
    /\ lastEvent.op = "select"
    /\ verificationProgress = ProgressLimit
    /\ uploadProgress = 0
    /\ Stage = "Uploading"

\* C9: handleVerify takes effect only in stage Uploaded, where it sets
\* verificationProgress to 0, moves to Verifying and creates one verify
\* interval; in no other stage is a verify interval created or Verifying
\* entered.
C9_VerifyOnlyFromUploaded ==
    [][/\ lastEvent'.op = "verify"
            => /\ Stage = "Uploaded"
               /\ Stage' = "Verifying"
               /\ verificationProgress' = 0
               /\ Len(timers') = Len(timers) + 1
               /\ timers'[Len(timers')] =
                      NewTimer("verify", VerifyInterval, selectedImage)
       /\ (\/ Cardinality(VerifyTimers(timers')) > Cardinality(VerifyTimers(timers))
           \/ (~isVerifying /\ isVerifying'))
            => (lastEvent'.op = "verify" /\ Stage = "Uploaded")]_vars

C9_Witness ==
    /\ lastEvent.op = "verify"
    /\ Stage = "Verifying"
    /\ verificationProgress = 0
    /\ VerifyTimers(timers) # {}

\* C10: handleViewResults takes effect only in stage Verified, where it
\* stores one of the three results and moves to ResultShown; in no other
\* stage is a result stored or shown.
C10_ResultsOnlyFromVerified ==
    [][/\ lastEvent'.op = "results"
            => /\ Stage = "Verified"
               /\ Stage' = "ResultShown"
               /\ verificationResult' \in ResultSet
       /\ (\/ (verificationResult' # verificationResult
                /\ verificationResult' # Null)
           \/ (~showResult /\ showResult'))
            => (lastEvent'.op = "results" /\ Stage = "Verified")
       /\ Stage # "Verified"
            => (verificationResult' \in {verificationResult, Null}
                /\ (showResult' => showResult))]_vars

C10_Witness ==
    /\ lastEvent.op = "results"
    /\ Stage = "ResultShown"
    /\ verificationResult = "edited"

\* C11: a file-selection event without a file changes no session field and
\* neither creates nor removes an interval.
C11_NoFileChangesNothing ==
    [][lastEvent'.op = "nofile" => UNCHANGED <<fields, timers, urlCount>>]_vars

C11_Witness ==
    /\ lastEvent.op = "nofile"
    /\ timers # <<>>
    /\ uploadProgress > 0
    /\ selectedImage # NoImage

\* C12: the result is unset until handleViewResults runs in stage Verified;
\* it is assigned only while unset, and once assigned it keeps its value
\* until the next successful file selection.
C12_ResultSetOnce ==
    [][/\ (verificationResult' # verificationResult
           /\ verificationResult' # Null)
            => /\ lastEvent'.op = "results"
               /\ verificationResult = Null
               /\ Stage = "Verified"
       /\ (verificationResult # Null /\ lastEvent'.op # "select")
            => verificationResult' = verificationResult
       /\ (verificationResult # Null /\ lastEvent'.op = "select")
            => verificationResult' = Null]_vars

C12_Witness ==
    /\ verificationResult = "ai"
    /\ showResult
    /\ lastEvent.op = "nofile"

CardFilled(c) ==
    c.color # "" /\ c.title # "" /\ c.message # "" /\ c.action # ""

\* C13: right after handleViewResults the stage is ResultShown, the result is
\* one of the three categories and the rendered card carries non-empty
\* color, title, message and action, which are those of that category and
\* of no other.
C13_ResultShownWithMatchingCard ==
    /\ lastEvent.op = "results"
         => (Stage = "ResultShown" /\ verificationResult \in ResultSet)
    /\ showResult
         => /\ Len(card) = 1
            /\ card[1].image = selectedImage
            /\ CardFilled(card[1])
            /\ \A r \in ResultSet :
                  LET q == resultPropsOf(r)
                  IN  IF r = verificationResult
                        THEN /\ card[1].color = q.color
                             /\ card[1].title = q.title
                             /\ card[1].message = q.message
                             /\ card[1].action = q.action
                        ELSE /\ card[1].color # q.color
                             /\ card[1].title # q.title
                             /\ card[1].message # q.message
                             /\ card[1].action # q.action

C13_Witness ==
    /\ lastEvent.op = "results"
    /\ verificationResult = "edited"
    /\ Len(card) = 1
    /\ card[1].title = "Edited Image"

\* C14: a card is rendered only if the result is set; showResult is true
\* exactly when verificationResult is non-null, and then an image is selected
\* too.
C14_CardOnlyForSetResult ==
    /\ card # <<>> => verificationResult # Null
    /\ showResult <=> verificationResult # Null
    /\ showResult => selectedImage # NoImage

C14_Witness ==
    /\ showResult
    /\ verificationResult = "authentic"
    /\ card # <<>>
    /\ selectedImage = MaxSelections

\* C15: while the first selection is the only one, the selection leaves
\* uploadProgress at 0, every upload tick adds exactly 10 and nothing else
\* changes uploadProgress, so after k ticks it is 10*k; below 100 the stage
\* is Uploading, and the tick that delivers 100 (the 10th) makes it Uploaded.
C15_FirstUploadCountsByTen ==
    [][urlCount' = 1
         => /\ lastEvent'.op = "select"
                 => (uploadProgress' = 0 /\ Stage' = "Uploading")
            /\ lastEvent'.op = "uploadTick"
                 => /\ uploadProgress' = uploadProgress + 10
                    /\ uploadProgress' <= 100
                    /\ uploadProgress' = 100 => Stage' = "Uploaded"
            /\ lastEvent'.op \notin {"select", "uploadTick"}
                 => uploadProgress' = uploadProgress
            /\ uploadProgress' < 100 => Stage' = "Uploading"
            /\ uploadProgress' = 100 => isUploaded']_vars

C15_Witness ==
    /\ urlCount = 1
    /\ lastEvent.op = "uploadTick"
    /\ uploadProgress = 100
    /\ Stage = "Uploaded"
    /\ timers = <<>>

\* C16: handleVerify moves to Verifying with verificationProgress 0, and
\* while the stage is Verifying (no file selection since handleVerify) every
\* verify tick adds exactly 10, keeps the stage Verifying below 100 and makes
\* it Verified at 100.
C16_VerifyCountsByTen ==
    [][/\ lastEvent'.op = "verify"
            => (Stage' = "Verifying" /\ verificationProgress' = 0)
       /\ (Stage = "Verifying" /\ lastEvent'.op = "verifyTick")
            => /\ verificationProgress' = verificationProgress + 10
               /\ verificationProgress' < 100 => Stage' = "Verifying"
               /\ verificationProgress' = 100 => Stage' = "Verified"]_vars

\* The value a tick wrote, read off the state after it.
Delivered(e, up, vp) == IF e.op = "uploadTick" THEN up ELSE vp

KindOf(e) == IF e.op = "uploadTick" THEN "upload" ELSE "verify"

\* C17: every tick belongs to one live interval whose callback was due; it
\* delivers that interval's previous value plus 10, never more than 100; the
\* tick that delivers 100 removes exactly that interval, any other tick
\* leaves every interval alive; so no live interval has reached 100.
C17_TimerStopsAtHundred ==
    [][/\ \A j \in 1..Len(timers') :
             timers'[j].progress \in {10 * k : k \in 0..9}
       /\ IsTick(lastEvent')
            => \E i \in 1..Len(timers) :
                 LET t == timers[i]
                     v == Delivered(lastEvent', uploadProgress',
                                    verificationProgress')
                 IN  /\ t.kind = KindOf(lastEvent')
                     /\ t.session = lastEvent'.session
                     /\ t.due = 0
                     /\ v = t.progress + 10
                     /\ v <= 100
                     /\ IF v = 100
                          THEN /\ Len(timers') = Len(timers) - 1
                               /\ \A j \in 1..Len(timers') :
                                     timers'[j] =
                                       IF j < i THEN timers[j]
                                                ELSE timers[j + 1]
                          ELSE /\ Len(timers') = Len(timers)
                               /\ \A j \in 1..Len(timers) :
                                     IF j = i
                                       THEN /\ timers'[j].progress = v
                                            /\ timers'[j].due > 0
                                       ELSE timers'[j] = timers[j]]_vars

C17_Witness ==
    /\ lastEvent.op = "verifyTick"
    /\ verificationProgress = 100
    /\ Len(timers) >= 1
    /\ \A j \in 1..Len(timers) :
          ~(timers[j].kind = "verify" /\ timers[j].session = lastEvent.session)

StageOrder ==
    {<<"Idle", "Uploading">>, <<"Uploading", "Uploaded">>,
     <<"Uploaded", "Verifying">>, <<"Verifying", "Verified">>,
     <<"Verified", "ResultShown">>}

KindsAlive(seq) == {seq[j].kind : j \in 1..Len(seq)}

\* C20: as long as there has been at most one successful file selection,
\* every step keeps the stage or moves it one place forward in Idle,
\* Uploading, Uploaded, Verifying, Verified, ResultShown; at most one
\* interval is alive; the upload interval is alive only while Uploading and
\* the verify interval only while Verifying.
C20_SingleSelectionOrdered ==
    [][urlCount' <= 1
         => /\ (Stage' = Stage \/ <<Stage, Stage'>> \in StageOrder)
            /\ Len(timers') <= 1
            /\ "upload" \in KindsAlive(timers') <=> Stage' = "Uploading"
            /\ "verify" \in KindsAlive(timers') <=> Stage' = "Verifying"]_vars

C20_Witness ==
    /\ urlCount = 1
    /\ Stage = "ResultShown"
    /\ lastEvent.op = "results"
    /\ timers = <<>>

\* C21: isVerifying and isVerified are never both true, and whenever
\* showResult is true isVerified is true and isVerifying is false.
C21_FlagsExclusive ==
    /\ ~(isVerifying /\ isVerified)
    /\ showResult => (isVerified /\ ~isVerifying)

\* Two verify intervals overlap after a reselection and the older one has
\* just completed.
C21_Witness ==
    /\ lastEvent.op = "verifyTick"
    /\ lastEvent.session # selectedImage
    /\ isVerified
    /\ \E j \in 1..Len(timers) :
          timers[j].kind = "verify" /\ timers[j].session = selectedImage

\* The verify intervals alive that were created for the selection img.
VerifyTimersFor(seq, img) ==
    {j \in 1..Len(seq) : seq[j].kind = "verify" /\ seq[j].session = img}

\* C22: handleVerify leaves the Verify button hidden, and the button, once
\* hidden by a verification (isVerifying or isVerified), stays hidden in
\* every step that is not a successful file selection;
\* so handleVerify never runs while a verify interval of the current image is
\* alive, and no image ever has two verify intervals.
C22_OneVerifyPerSelection ==
    [][/\ lastEvent'.op = "verify"
            => /\ ~VerifyButtonShown'
               /\ VerifyTimersFor(timers, selectedImage) = {}
       /\ ((isVerifying \/ isVerified) /\ lastEvent'.op # "select")
            => /\ (isVerifying' \/ isVerified')
               /\ ~(isUploaded' /\ ~isVerifying' /\ ~isVerified')
       /\ \A img \in 1..MaxSelections :
             Cardinality(VerifyTimersFor(timers', img)) <= 1]_vars

\* The verification of the current image has run to its end and the button
\* is still hidden.
C22_Witness ==
    /\ lastEvent = [op |-> "verifyTick", session |-> selectedImage]
    /\ isUploaded
    /\ isVerified
    /\ VerifyTimersFor(timers, selectedImage) = {}
    /\ ~(isUploaded /\ ~isVerifying /\ ~isVerified)

\* C23: an upload tick changes only uploadProgress and isUploaded; a verify
\* tick changes only verificationProgress, isVerifying and isVerified;
\* handleVerify leaves selectedImage, uploadProgress, isUploaded and
\* verificationResult unchanged; handleViewResults changes only
\* verificationResult and showResult; only a successful file selection
\* changes selectedImage.
C23_FrameConditions ==
    [][/\ lastEvent'.op = "uploadTick"
            => UNCHANGED <<selectedImage, isVerifying, verificationProgress,
                           isVerified, showResult, verificationResult>>
       /\ lastEvent'.op = "verifyTick"
            => UNCHANGED <<selectedImage, uploadProgress, isUploaded,
                           showResult, verificationResult>>
       /\ lastEvent'.op = "verify"
            => UNCHANGED <<selectedImage, uploadProgress, isUploaded,
                           verificationResult>>
       /\ lastEvent'.op = "results"
            => UNCHANGED <<selectedImage, uploadProgress, isUploaded,
                           isVerifying, verificationProgress, isVerified>>
       /\ selectedImage' # selectedImage => lastEvent'.op = "select"]_vars

\* handleVerify has run on a session whose other fields carry values.
C23_Witness ==
    /\ lastEvent.op = "verify"
    /\ uploadProgress = 100
    /\ isUploaded
    /\ selectedImage = MaxSelections
    /\ Len(timers) >= 2
====
